---- MODULE Spec2Model ----
(***************************************************************************)
(* Credit ledger, payment-request workflow, admin user update and the      *)
(* describe endpoints of the image-describe application, as state          *)
(* machines over the database tables they read and write.  Every `await`   *)
(* of a handler that touches the database is one step, so that requests    *)
(* interleave exactly where the Node event loop lets them.                 *)
(***************************************************************************)
EXTENDS Integers, Sequences, FiniteSets, TLC

(***************************************************************************)
(* Bounds of the model.                                                    *)
(***************************************************************************)
MaxOps == 2          \* handler invocations started in one behaviour (Spec)
MaxFiles == 3        \* files of all describe requests of one behaviour
MaxBalance == 3      \* largest starting balance of the describe user
MaxSeqFiles == 2     \* files of one request (SpecSeq)
MaxConcFiles == 11   \* files of the concurrent request (SpecConc)
MaxClientFiles == 2  \* files selected in the upload component (SpecClient)

(***************************************************************************)
(* Program constants.                                                      *)
(***************************************************************************)
DefaultCredits == 100      \* users.credits DEFAULT 100
MinPayCredits == 10        \* smallest creditsRequested a submit accepts
BatchSize == 10            \* BATCH_SIZE of the concurrent stream
MaxConcurrentRequests == 5 \* MAX_CONCURRENT_REQUESTS of the concurrent stream

UserIds == {1, 2}
Calls == {1, 2}            \* slots of direct ledger calls
PayCalls == {1, 2}         \* slots of admin process calls
PayIds == {1}              \* payment requests
Patches == {1}             \* slots of admin PATCH calls

Undefined == -1000         \* a JSON body field that is absent
Reqs == {1, 2}             \* slots of describe requests
DescribeUser == 1          \* the user the describe requests are made by

NoUser == [id |-> 0, credits |-> 0]
UserRow(u, c) == [id |-> u, credits |-> c]

NoPay == [id |-> 0, userId |-> 0, creditsRequested |-> 0, status |-> "NONE"]

VARIABLES
    users,      \* table users: [UserIds -> row or NoUser]
    txs,        \* table credit_transactions, in insertion order
    payments,   \* table payment_requests: [PayIds -> row or NoPay]
    lc,         \* direct calls of deductCredits / addCredits
    pp,         \* POST /api/admin/payments/process calls
    pt,         \* PATCH /api/admin/users/[id] calls
    ops,        \* handler invocations started so far
    images,     \* table image_descriptions, a set of rows
    dr,         \* describe requests (the three describe endpoints)
    ideogramKey, \* what getSetting('IDEOGRAM_API_KEY') returns: a key or null
    role,       \* column role of table users (read where users[u] is a row)
    pa,         \* the session and admin checks of the process calls
    settings,   \* table settings: [SettingKeys -> row or NoSetting]
    env,        \* process.env: [EnvNames -> value or Unset]
    gs,         \* the last getSetting call and what it returned
    cl          \* the bulk upload component in the browser

\* what only getSetting reads and writes
svars == <<settings, env, gs>>

vars == <<users, txs, payments, lc, pp, pt, ops, images, dr, ideogramKey,
          role, pa, svars, cl>>
\* what the ledger, payment and PATCH steps leave alone
dvars == <<images, dr, ideogramKey, role, pa, svars, cl>>
\* what the steps of the describe endpoints leave alone
avars == <<payments, lc, pp, pt, ops, role, pa, svars, cl>>
\* what the steps in the browser leave alone
bvars == <<users, txs, payments, lc, pp, pt, ops, images, dr, ideogramKey,
           role, pa, svars>>

(***************************************************************************)
(* Tables.                                                                 *)
(***************************************************************************)
\* a credit_transactions row; `by` records the handler invocation that
\* inserted it (kind, slot) and `ref` the payment request its description names
TxRow(u, a, t, by, ref) ==
    [userId |-> u, amount |-> a, type |-> t, by |-> by, ref |-> ref]

RECURSIVE SumAmounts(_, _)
SumAmounts(rows, u) ==
    IF rows = <<>> THEN 0
    ELSE (IF Head(rows).userId = u THEN Head(rows).amount ELSE 0)
         + SumAmounts(Tail(rows), u)

RowsOf(rows, u) == SelectSeq(rows, LAMBDA r : r.userId = u)

\* prisma.user.update({ data: { credits: c } })
SetCredits(us, u, c) == [us EXCEPT ![u] = UserRow(u, c)]

\* prisma.user.update({ data: { credits: { increment: n } } })
IncrementCredits(us, u, n) == [us EXCEPT ![u] = UserRow(u, us[u].credits + n)]

(***************************************************************************)
(* lib/user: deductCredits and addCredits.                                 *)
(***************************************************************************)
\* deductCredits with the balance comparison left out of its guard
InsufficientCreditsNoBalance(user, amount) == user = NoUser

\* the guard of deductCredits
InsufficientCredits(user, amount) == user = NoUser \/ user.credits < amount

\* deductCredits writing { decrement: amount } instead of a computed balance
DeductDataAtomic(user, current, amount) == current - amount

\* the balance deductCredits writes: computed from the row it read
DeductData(user, current, amount) == user.credits - amount

\* the row deductCredits inserts
DeductRow(u, amount, by) == TxRow(u, 0 - amount, "IMAGE_DESCRIPTION", by, 0)

\* the balance addCredits writes: computed from the row it read
AddData(user, current, amount) == user.credits + amount

\* the row addCredits inserts
AddRow(u, amount, type, by) == TxRow(u, amount, type, by, 0)

IdleCall == [pc |-> "idle", op |-> "none", userId |-> 0, amount |-> 0,
             type |-> "none", user |-> NoUser, err |-> "none"]

\* the first await of a ledger call: findUnique, then the guard
LedgerFind(c, op, u, a, t) ==
    /\ lc[c].pc = "idle"
    /\ \A d \in Calls : d < c => lc[d].pc # "idle"
    /\ ops < MaxOps
    /\ ops' = ops + 1
    /\ LET user == users[u]
           fails == IF op = "deduct" THEN InsufficientCredits(user, a)
                    ELSE user = NoUser
           msg == IF op = "deduct" THEN "Insufficient credits" ELSE "User not found"
       IN lc' = [lc EXCEPT ![c] =
                    [pc |-> IF fails THEN "failed" ELSE "tx",
                     op |-> op, userId |-> u, amount |-> a, type |-> t,
                     user |-> user, err |-> IF fails THEN msg ELSE "none"]]
    /\ UNCHANGED <<users, txs, payments, pp, pt>>
    /\ UNCHANGED dvars

\* prisma.$transaction([user.update, creditTransaction.create]) commits
LedgerCommit(c) ==
    /\ lc[c].pc = "tx"
    /\ LET k == lc[c]
           u == k.userId
       IN /\ users' = SetCredits(users, u,
                         IF k.op = "deduct"
                         THEN DeductData(k.user, users[u].credits, k.amount)
                         ELSE AddData(k.user, users[u].credits, k.amount))
          /\ txs' = Append(txs,
                         IF k.op = "deduct"
                         THEN DeductRow(u, k.amount, <<1, c>>)
                         ELSE AddRow(u, k.amount, k.type, <<1, c>>))
    /\ lc' = [lc EXCEPT ![c].pc = "done"]
    /\ UNCHANGED <<payments, pp, pt, ops>>
    /\ UNCHANGED dvars

\* prisma.$transaction rejects: both writes are rolled back
LedgerAbort(c) ==
    /\ lc[c].pc = "tx"
    /\ lc' = [lc EXCEPT ![c].pc = "failed", ![c].err = "db"]
    /\ UNCHANGED <<users, txs, payments, pp, pt, ops>>
    /\ UNCHANGED dvars

(***************************************************************************)
(* POST /api/payment/submit and POST /api/admin/payments/process.          *)
(***************************************************************************)
\* a submit handler creating the request as already approved
NewRequestApproved(p, u, n) ==
    [id |-> p, userId |-> u, creditsRequested |-> n, status |-> "APPROVED"]

\* the row the submit handler creates
NewRequest(p, u, n) ==
    [id |-> p, userId |-> u, creditsRequested |-> n, status |-> "PENDING"]

\* prisma.paymentRequest.create({ status: 'PENDING' })
SubmitPayment(p, u, n) ==
    /\ payments[p] = NoPay
    /\ users[u] # NoUser
    /\ payments' = [payments EXCEPT ![p] = NewRequest(p, u, n)]
    /\ UNCHANGED <<users, txs, lc, pp, pt, ops>>
    /\ UNCHANGED dvars

\* the status check of the process handler, on the row it read
AlreadyProcessed(paymentRequest) == paymentRequest.status # "PENDING"

\* tx.paymentRequest.update({ where: { id }, data: { status: action } })
SetStatus(pays, p, action) == [pays EXCEPT ![p].status = action]

\* the row the process handler inserts on approval
PurchaseRow(paymentRequest, by) ==
    TxRow(paymentRequest.userId, paymentRequest.creditsRequested, "PURCHASE",
          by, paymentRequest.id)

IdlePay == [pc |-> "idle", requestId |-> 0, action |-> "none",
            paymentRequest |-> NoPay, status |-> 0]

Roles == {"USER", "ADMIN"}

\* a session token: the user id it was issued for and the role at login
NoSession == [sub |-> 0, role |-> "none"]
Token(u, t) == [sub |-> u, role |-> t]
Tokens == {NoSession} \cup {Token(u, t) : u \in UserIds, t \in Roles}

\* the session callback: the role is read from the database, and taken
\* from the token if the user's row is gone
GetServerSession(token) ==
    IF token = NoSession THEN NoSession
    ELSE Token(token.sub, IF users[token.sub] # NoUser THEN role[token.sub]
                          ELSE token.role)

\* prisma.user.findUnique({ where: { id }, select: { role: true } })
FindRole(u) == IF users[u] = NoUser THEN "none" ELSE role[u]

\* the admin check trusting the role the session carries
IsAdminBySession(session, userRole) == session.role = "ADMIN"

\* the admin check of the process handler: on the role it read itself
IsAdmin(session, userRole) == userRole = "ADMIN"

IdleAuth == [pc |-> "idle", session |-> NoSession, status |-> 0]

\* a process call that has passed both checks
PastAdminCheck == [pc |-> "admin", session |-> NoSession, status |-> 0]

\* getServerSession, then the 401 early return
PaySession(c, token) ==
    /\ pa[c].pc = "idle"
    /\ \A d \in PayCalls : d < c => pa[d].pc # "idle"
    /\ LET session == GetServerSession(token)
       IN pa' = [pa EXCEPT ![c] =
                    IF session = NoSession
                    THEN [pc |-> "done", session |-> session, status |-> 401]
                    ELSE [pc |-> "role", session |-> session, status |-> 0]]
    /\ UNCHANGED <<users, txs, payments, lc, pp, pt, ops>>
    /\ UNCHANGED <<images, dr, ideogramKey, role, svars, cl>>

\* findUnique of the caller's role, then the 403 early return
PayRole(c) ==
    /\ pa[c].pc = "role"
    /\ pa' = [pa EXCEPT ![c] =
                IF IsAdmin(pa[c].session, FindRole(pa[c].session.sub))
                THEN [pa[c] EXCEPT !.pc = "admin"]
                ELSE [pa[c] EXCEPT !.pc = "done", !.status = 403]]
    /\ UNCHANGED <<users, txs, payments, lc, pp, pt, ops>>
    /\ UNCHANGED <<images, dr, ideogramKey, role, svars, cl>>

\* findUnique of the payment request, then the 404 and 400 early returns
PayFind(c, p, action) ==
    /\ pa[c].pc = "admin"
    /\ pp[c].pc = "idle"
    /\ \A d \in PayCalls : d < c => pp[d].pc # "idle"
    /\ ops < MaxOps
    /\ ops' = ops + 1
    /\ LET found == payments[p]
           st == IF found = NoPay THEN 404
                 ELSE IF AlreadyProcessed(found) THEN 400 ELSE 0
       IN pp' = [pp EXCEPT ![c] =
                    [pc |-> IF st = 0 THEN "tx" ELSE "done",
                     requestId |-> p, action |-> action,
                     paymentRequest |-> found, status |-> st]]
    /\ UNCHANGED <<users, txs, payments, lc, pt>>
    /\ UNCHANGED dvars

\* the process handler granting credits whatever the action is
ApprovesAny(action) == TRUE

\* if (action === 'APPROVED') inside the transaction
Approves(action) == action = "APPROVED"

\* prisma.$transaction(async tx => ...) commits
PayCommit(c) ==
    /\ pp[c].pc = "tx"
    /\ LET k == pp[c]
           pr == k.paymentRequest
       IN /\ payments' = SetStatus(payments, k.requestId, k.action)
          /\ IF Approves(k.action)
             THEN /\ users' = IncrementCredits(users, pr.userId, pr.creditsRequested)
                  /\ txs' = Append(txs, PurchaseRow(pr, <<2, c>>))
             ELSE UNCHANGED <<users, txs>>
    /\ pp' = [pp EXCEPT ![c].pc = "done", ![c].status = 200]
    /\ UNCHANGED <<lc, pt, ops>>
    /\ UNCHANGED dvars

\* the transaction rejects: everything in it is rolled back, 500
PayAbort(c) ==
    /\ pp[c].pc = "tx"
    /\ pp' = [pp EXCEPT ![c].pc = "done", ![c].status = 500]
    /\ UNCHANGED <<users, txs, payments, lc, pt, ops>>
    /\ UNCHANGED dvars

(***************************************************************************)
(* PATCH /api/admin/users/[id].                                            *)
(***************************************************************************)
\* the condition under which PATCH writes credits and logs an adjustment
CreditsChanged(credits, currentUser) ==
    credits # Undefined /\ credits # currentUser.credits

\* the row PATCH inserts
AdjustmentRow(u, credits, currentUser, by) ==
    TxRow(u, credits - currentUser.credits, "ADMIN_ADJUSTMENT", by, 0)

IdlePatch == [pc |-> "idle", userId |-> 0, credits |-> Undefined,
              currentUser |-> NoUser, status |-> 0]

\* findUnique of the user, then the 404 early return
PatchFind(c, u, credits) ==
    /\ pt[c].pc = "idle"
    /\ ops < MaxOps
    /\ ops' = ops + 1
    /\ LET cur == users[u]
       IN pt' = [pt EXCEPT ![c] =
                    [pc |-> IF cur = NoUser THEN "done"
                            ELSE IF CreditsChanged(credits, cur) THEN "createTx"
                            ELSE "update",
                     userId |-> u, credits |-> credits, currentUser |-> cur,
                     status |-> IF cur = NoUser THEN 404 ELSE 0]]
    /\ UNCHANGED <<users, txs, payments, lc, pp>>
    /\ UNCHANGED dvars

\* await prisma.creditTransaction.create(...), a statement of its own
PatchCreateTx(c) ==
    /\ pt[c].pc = "createTx"
    /\ txs' = Append(txs, AdjustmentRow(pt[c].userId, pt[c].credits,
                                        pt[c].currentUser, <<3, c>>))
    /\ pt' = [pt EXCEPT ![c].pc = "update"]
    /\ UNCHANGED <<users, payments, lc, pp, ops>>
    /\ UNCHANGED dvars

\* await prisma.user.update({ data: updateData })
PatchUpdate(c) ==
    /\ pt[c].pc = "update"
    /\ users' = IF CreditsChanged(pt[c].credits, pt[c].currentUser)
                THEN SetCredits(users, pt[c].userId, pt[c].credits)
                ELSE users
    /\ pt' = [pt EXCEPT ![c].pc = "done", ![c].status = 200]
    /\ UNCHANGED <<txs, payments, lc, pp, ops>>
    /\ UNCHANGED dvars

\* prisma.user.update rejects: the catch block answers 500
PatchUpdateFails(c) ==
    /\ pt[c].pc = "update"
    /\ pt' = [pt EXCEPT ![c].pc = "done", ![c].status = 500]
    /\ UNCHANGED <<users, txs, payments, lc, pp, ops>>
    /\ UNCHANGED dvars

(***************************************************************************)
(* User creation: a row with the column default and no transaction row.    *)
(***************************************************************************)
CreateUser(u) ==
    /\ users[u] = NoUser
    /\ \A v \in UserIds : v < u => users[v] # NoUser
    /\ users' = [users EXCEPT ![u] = UserRow(u, DefaultCredits)]
    /\ UNCHANGED <<txs, payments, lc, pp, pt, ops>>
    /\ UNCHANGED dvars

(***************************************************************************)
(* processImage of the three describe endpoints.  `file` is what the       *)
(* validation reads, `key` what getSetting returned, `api` what the        *)
(* Ideogram call does and `dbOk` whether imageDescription.create succeeds. *)
(***************************************************************************)
FileKinds == {"image", "notImage", "tooBig"}
ApiOutcomes == {"ok", "noText", "notOk", "nonJson", "throws"}

\* the two validation early returns of processImage
ValidationFails(file) == file = "notImage" \/ file = "tooBig"

\* the responses on which the try block around fetch throws
ApiThrows(api) == api \in {"notOk", "nonJson", "throws"}

\* a ProcessResult: success and source, with whether fetch was called and
\* whether an image_descriptions row was inserted
ProcessResult(success, source, called, saved) ==
    [success |-> success, source |-> source, called |-> called, saved |-> saved]

\* POST /api/describe: a failed or unconfigured API yields the fallback text
ProcessImageJson(file, key, api, dbOk) ==
    IF ValidationFails(file) THEN ProcessResult(FALSE, "none", FALSE, FALSE)
    ELSE IF ~dbOk THEN ProcessResult(FALSE, "none", key, FALSE)
    ELSE IF key /\ ~ApiThrows(api) THEN ProcessResult(TRUE, "ideogram", TRUE, TRUE)
    ELSE ProcessResult(TRUE, "fallback", key, TRUE)

\* POST /api/describe/bulk (sequential stream): errors instead of fallback
ProcessImageBulk(file, key, api, dbOk) ==
    IF ValidationFails(file) THEN ProcessResult(FALSE, "none", FALSE, FALSE)
    ELSE IF ~key THEN ProcessResult(FALSE, "none", FALSE, FALSE)
    ELSE IF ApiThrows(api) \/ ~dbOk THEN ProcessResult(FALSE, "none", TRUE, FALSE)
    ELSE ProcessResult(TRUE, "ideogram", TRUE, TRUE)

\* ImageProcessingService.processImage (concurrent stream): a JSON answer
\* without a description is an error too
ProcessImageConc(file, key, api, dbOk) ==
    IF ValidationFails(file) THEN ProcessResult(FALSE, "none", FALSE, FALSE)
    ELSE IF ~key THEN ProcessResult(FALSE, "none", FALSE, FALSE)
    ELSE IF ApiThrows(api) \/ api = "noText" \/ ~dbOk
         THEN ProcessResult(FALSE, "none", TRUE, FALSE)
    ELSE ProcessResult(TRUE, "ideogram", TRUE, TRUE)

ProcessImage(endpoint, file, key, api, dbOk) ==
    IF endpoint = "json" THEN ProcessImageJson(file, key, api, dbOk)
    ELSE IF endpoint = "seq" THEN ProcessImageBulk(file, key, api, dbOk)
    ELSE ProcessImageConc(file, key, api, dbOk)

\* an entry of results: the ProcessResult's index and success, and what
\* happened to the file: extOk says that it passed validation and that the
\* external call was made and answered 200 with a JSON body
Entry(index, res, file, key, api) ==
    [index |-> index, success |-> res.success,
     extOk |-> ~ValidationFails(file) /\ key /\ ~ApiThrows(api),
     error |-> IF res.success THEN "none" ELSE "failed"]

Pending == [index |-> -1, success |-> FALSE, extOk |-> FALSE, error |-> "none"]

\* the result of the file at which the sequential stream stops
CreditsStop(index) ==
    [index |-> index, success |-> FALSE, extOk |-> FALSE,
     error |-> "Insufficient credits to process this image"]

\* the inputs of one processImage call: the API and the database are only
\* consulted for a file that passes validation
Cases == {c \in FileKinds \X ApiOutcomes \X BOOLEAN :
             ValidationFails(c[1]) => (c[2] = "ok" /\ c[3])}

\* a prisma.imageDescription.create row
ImageRow(u, source, by, index) ==
    [userId |-> u, source |-> source, by |-> by, index |-> index]

InsertImage(rows, row) == rows \cup {row}

(***************************************************************************)
(* The describe handlers.                                                  *)
(***************************************************************************)
Endpoints == {"json", "seq", "conc"}

\* a ProgressUpdate written to the stream
Event(type, index, total, success, successful) ==
    [type |-> type, index |-> index, total |-> total, success |-> success,
     successful |-> successful, failed |-> total - successful,
     creditsUsed |-> successful]

ProgressEvent(index, total) == Event("progress", index, total, FALSE, 0)
\* a result event that does not carry the index of its file
ResultEventNoIndex(entry, total) == Event("result", 0, total, entry.success, 0)

ResultEvent(entry, total) == Event("result", entry.index, total, entry.success, 0)
CompleteEvent(total, successful) == Event("complete", 0, total, FALSE, successful)
ErrorEvent(total) == Event("error", 0, total, FALSE, 0)

IdleReq == [pc |-> "idle", endpoint |-> "none", n |-> 0, user |-> NoUser,
            auth |-> "none",
            key |-> FALSE, i |-> 0, results |-> <<>>, successful |-> 0,
            batch |-> <<>>, lo |-> 0, ded |-> NoUser, status |-> 0,
            stream |-> <<>>, closed |-> FALSE, apiCalls |-> 0]

\* the credit check asking for one credit, whatever the number of files
InsufficientForBatchOne(user, requiredCredits) == user.credits < 1

\* the credit check every describe endpoint makes before it processes a file
InsufficientForBatch(user, requiredCredits) == user.credits < requiredCredits

\* the sequential stream passing its running count of successes
DeductAmountRunning(endpoint, successfulProcessing) == successfulProcessing

\* the amount a describe endpoint passes to deductCredits
DeductAmount(endpoint, successfulProcessing) ==
    IF endpoint = "seq" THEN 1 ELSE successfulProcessing

\* results.filter(r => r.success).length
SuccessCount(results) ==
    Cardinality({x \in 1..Len(results) : results[x].success})

RECURSIVE SumN(_)
SumN(S) == IF S = {} THEN 0
           ELSE LET q == CHOOSE q \in S : TRUE IN dr[q].n + SumN(S \ {q})

\* files submitted so far, over all requests
FilesSubmitted == SumN(Reqs)

\* a valid session of user u, as getCurrentUser sees it
SessionOf(u) == Token(u, "USER")

\* getCurrentUser: the user row of the session's email, or what it throws
GetCurrentUser(token) ==
    IF GetServerSession(token) = NoSession
    THEN [err |-> "User not authenticated", user |-> NoUser]
    ELSE IF users[token.sub] = NoUser
    THEN [err |-> "User not found", user |-> NoUser]
    ELSE [err |-> "none", user |-> users[token.sub]]

\* the handlers that resolve the caller through getCurrentUser and process
\* no files here: GET /api/user/credits, GET and DELETE /api/history, and
\* the POST handler at the head of bulk-with-credits/route.ts
UserEndpoints == {"credits", "history", "clearHistory", "processor"}

\* the status with which a handler's catch block answers an error thrown
\* by getCurrentUser
CatchStatus(endpoint, msg) ==
    IF endpoint = "processor" THEN 400
    ELSE IF msg \in {"User not authenticated", "User not found"} THEN 401
    ELSE 500

\* getCurrentUser, the credit check, and what each handler does before its
\* first file: the streaming ones open the stream with progress(0, N)
ReqStart(r, endpoint, n, token) ==
    /\ dr[r].pc = "idle"
    /\ \A q \in Reqs : q < r => dr[q].pc # "idle"
    /\ LET got == GetCurrentUser(token)
           user == got.user
       IN dr' = [dr EXCEPT ![r] =
            IF got.err # "none"
            THEN [IdleReq EXCEPT !.pc = "done", !.endpoint = endpoint, !.n = n,
                                 !.auth = got.err,
                                 !.status = CatchStatus(endpoint, got.err)]
            ELSE IF InsufficientForBatch(user, n)
            THEN [IdleReq EXCEPT !.pc = "done", !.endpoint = endpoint, !.n = n,
                                 !.user = user, !.status = 402]
            ELSE [IdleReq EXCEPT
                    !.pc = IF endpoint = "json" THEN "process"
                           ELSE IF endpoint = "seq" THEN "check" ELSE "batch",
                    !.endpoint = endpoint, !.n = n, !.user = user,
                    !.key = (endpoint = "conc" /\ ideogramKey),
                    !.status = IF endpoint = "json" THEN 0 ELSE 200,
                    !.stream = IF endpoint = "json" THEN <<>>
                               ELSE <<ProgressEvent(0, n)>>]]
    /\ UNCHANGED <<users, txs, images, ideogramKey>>
    /\ UNCHANGED avars

\* a request to one of the UserEndpoints: getCurrentUser, then the read or
\* the deleteMany of the handler; what processor.processImages does is in
\* lib/image-description-processor
UserRequest(r, endpoint, token) ==
    /\ dr[r].pc = "idle"
    /\ \A q \in Reqs : q < r => dr[q].pc # "idle"
    /\ LET got == GetCurrentUser(token)
       IN /\ dr' = [dr EXCEPT ![r] =
                IF got.err # "none"
                THEN [IdleReq EXCEPT !.pc = "done", !.endpoint = endpoint,
                                     !.auth = got.err,
                                     !.status = CatchStatus(endpoint, got.err)]
                ELSE [IdleReq EXCEPT
                        !.pc = IF endpoint = "processor" THEN "processImages"
                               ELSE "done",
                        !.endpoint = endpoint, !.user = got.user,
                        !.status = IF endpoint = "processor" THEN 0 ELSE 200]]
          /\ images' = IF got.err = "none" /\ endpoint = "clearHistory"
                       THEN {row \in images : row.userId # got.user.id}
                       ELSE images
    /\ UNCHANGED <<users, txs, ideogramKey>>
    /\ UNCHANGED avars

\* the summary of the bulk JSON response
BulkSummary(k) == CompleteEvent(k.n, k.successful)

\* POST /api/describe answered with the bulk response format
BulkAnswered(k) ==
    k.endpoint = "json" /\ k.pc = "done" /\ k.status = 200 /\ k.n > 1

\* POST /api/describe: one iteration of `for (const file of files)`
JsonProcess(r, file, api, dbOk) ==
    /\ dr[r].pc = "process"
    /\ LET k == dr[r]
           res == ProcessImage("json", file, ideogramKey, api, dbOk)
           succ == k.successful + (IF res.success THEN 1 ELSE 0)
           last == k.i + 1 = k.n
       IN /\ images' = IF res.saved
                       THEN InsertImage(images, ImageRow(k.user.id, res.source, <<4, r>>, k.i))
                       ELSE images
          /\ dr' = [dr EXCEPT ![r] =
                [k EXCEPT !.results = Append(k.results, Entry(k.i, res, file, ideogramKey, api)),
                          !.successful = succ,
                          !.i = k.i + 1,
                          !.apiCalls = k.apiCalls + (IF res.called THEN 1 ELSE 0),
                          !.pc = IF ~last THEN "process"
                                 ELSE IF succ > 0 THEN "deduct" ELSE "done",
                          !.status = IF last /\ succ = 0
                                     THEN (IF k.n = 1 THEN 400 ELSE 200) ELSE 0]]
    /\ UNCHANGED <<users, txs, ideogramKey>>
    /\ UNCHANGED avars

\* the result event of file i, and the step of the sequential loop
SeqAfterResult(k) ==
    [k EXCEPT !.stream = Append(k.stream, ResultEvent(k.results[Len(k.results)], k.n)),
              !.i = k.i + 1,
              !.pc = IF k.i + 1 < k.n THEN "check" ELSE "final"]

\* the per-file check stopping only below zero
OutOfCreditsNegative(currentUser) ==
    currentUser = NoUser \/ currentUser.credits < 0

\* if (!currentUser || currentUser.credits < 1)
OutOfCredits(currentUser) == currentUser = NoUser \/ currentUser.credits < 1

\* the sequential loop sending the result of a success without deducting
SeqSucceededNoDeduct(k) ==
    SeqAfterResult([k EXCEPT !.successful = k.successful + 1])

\* if (result.success): count it and call deductCredits
SeqSucceeded(k) == [k EXCEPT !.successful = k.successful + 1, !.pc = "deduct"]

\* POST /api/describe/bulk: the per-file credit check, then processImage
SeqCheck(r, file, api, dbOk) ==
    /\ dr[r].pc = "check"
    /\ LET k == dr[r]
           currentUser == users[k.user.id]
           res == ProcessImage("seq", file, ideogramKey, api, dbOk)
           e == Entry(k.i, res, file, ideogramKey, api)
           k1 == [k EXCEPT !.stream = Append(k.stream, ProgressEvent(k.i + 1, k.n)),
                           !.results = Append(k.results, e),
                           !.apiCalls = k.apiCalls + (IF res.called THEN 1 ELSE 0)]
       IN IF OutOfCredits(currentUser)
          THEN /\ dr' = [dr EXCEPT ![r] =
                    [k EXCEPT !.results = Append(k.results, CreditsStop(k.i)),
                              !.stream = Append(k.stream,
                                  ResultEvent(CreditsStop(k.i), k.n)),
                              !.pc = "final"]]
               /\ images' = images
          ELSE /\ images' = IF res.saved
                            THEN InsertImage(images, ImageRow(k.user.id, res.source, <<4, r>>, k.i))
                            ELSE images
               /\ dr' = [dr EXCEPT ![r] =
                    IF res.success THEN SeqSucceeded(k1)
                    ELSE SeqAfterResult(k1)]
    /\ UNCHANGED <<users, txs, ideogramKey>>
    /\ UNCHANGED avars

\* the complete event and controller.close()
SeqComplete(r) ==
    /\ dr[r].pc = "final"
    /\ dr' = [dr EXCEPT ![r] =
            [dr[r] EXCEPT !.stream = Append(dr[r].stream,
                                        CompleteEvent(dr[r].n, dr[r].successful)),
                          !.closed = TRUE, !.pc = "done"]]
    /\ UNCHANGED <<users, txs, images, ideogramKey>>
    /\ UNCHANGED avars

Min(a, b) == IF a < b THEN a ELSE b

\* processFilesConcurrently: every file of the batch is handed to
\* processImage before the first await
ConcStartBatch(r) ==
    /\ dr[r].pc = "batch"
    /\ LET k == dr[r]
           size == Min(BatchSize, k.n - k.i)
       IN dr' = [dr EXCEPT ![r] =
            [k EXCEPT !.batch = [x \in 1..size |-> Pending], !.lo = k.i,
                      !.pc = "settle"]]
    /\ UNCHANGED <<users, txs, images, ideogramKey>>
    /\ UNCHANGED avars

\* one processImage promise of the batch settles
ConcSettle(r, x, file, api, dbOk) ==
    /\ dr[r].pc = "settle"
    /\ x \in DOMAIN dr[r].batch
    /\ dr[r].batch[x] = Pending
    /\ LET k == dr[r]
           index == k.lo + x - 1
           res == ProcessImage("conc", file, k.key, api, dbOk)
       IN /\ images' = IF res.saved
                       THEN InsertImage(images, ImageRow(k.user.id, res.source, <<4, r>>, index))
                       ELSE images
          /\ dr' = [dr EXCEPT ![r] =
                [k EXCEPT !.batch[x] = Entry(index, res, file, k.key, api),
                          !.apiCalls = k.apiCalls + (IF res.called THEN 1 ELSE 0)]]
    /\ UNCHANGED <<users, txs, ideogramKey>>
    /\ UNCHANGED avars

\* the events of a settled batch sent last file first
BatchEventsReversed(batch, lo, total) ==
    [y \in 1..(2 * Len(batch)) |->
        IF y % 2 = 1 THEN ProgressEvent(lo + (y + 1) \div 2, total)
        ELSE ResultEvent(batch[Len(batch) + 1 - y \div 2], total)]

\* the events of a settled batch: progress and result, file by file
BatchEvents(batch, lo, total) ==
    [y \in 1..(2 * Len(batch)) |->
        IF y % 2 = 1 THEN ProgressEvent(lo + (y + 1) \div 2, total)
        ELSE ResultEvent(batch[y \div 2], total)]

\* the batch loop stopping after its first batch
MoreBatchesNever(i, n) == FALSE

\* the batch loop never leaving
MoreBatchesAlways(i, n) == TRUE

\* for (let i = 0; i < files.length; i += BATCH_SIZE)
MoreBatches(i, n) == i < n

\* Promise.allSettled resolved: the batch's updates are sent, then either
\* the next batch starts or the successes are counted
ConcEmit(r) ==
    /\ dr[r].pc = "settle"
    /\ \A x \in DOMAIN dr[r].batch : dr[r].batch[x] # Pending
    /\ LET k == dr[r]
           results == k.results \o k.batch
           i == k.lo + Len(k.batch)
           succ == SuccessCount(results)
           k1 == [k EXCEPT !.results = results, !.i = i, !.batch = <<>>,
                           !.stream = k.stream \o BatchEvents(k.batch, k.lo, k.n)]
       IN dr' = [dr EXCEPT ![r] =
            IF MoreBatches(i, k.n) THEN [k1 EXCEPT !.pc = "batch"]
            ELSE IF succ > 0 THEN [k1 EXCEPT !.successful = succ, !.pc = "deduct"]
            ELSE [k1 EXCEPT !.stream = Append(k1.stream, CompleteEvent(k.n, 0)),
                            !.closed = TRUE, !.pc = "done"]]
    /\ UNCHANGED <<users, txs, images, ideogramKey>>
    /\ UNCHANGED avars

\* the sequential stream keeping its count when deductCredits threw
DeductThrewCounted(k, msg) ==
    IF k.endpoint = "json"
    THEN [k EXCEPT !.pc = "done",
                   !.status = IF msg = "Insufficient credits" THEN 402 ELSE 500]
    ELSE IF k.endpoint = "seq"
    THEN SeqAfterResult([k EXCEPT !.results[Len(k.results)].success = FALSE,
                                  !.results[Len(k.results)].error =
                                      "Processing successful but credit deduction failed"])
    ELSE [k EXCEPT !.stream = Append(k.stream, ErrorEvent(k.n)),
                   !.closed = TRUE, !.pc = "done"]

\* deductCredits threw: what the calling handler does with the error
DeductThrew(k, msg) ==
    IF k.endpoint = "json"
    THEN [k EXCEPT !.pc = "done",
                   !.status = IF msg = "Insufficient credits" THEN 402 ELSE 500]
    ELSE IF k.endpoint = "seq"
    THEN SeqAfterResult([k EXCEPT !.results[Len(k.results)].success = FALSE,
                                  !.results[Len(k.results)].error =
                                      "Processing successful but credit deduction failed",
                                  !.successful = k.successful - 1])
    ELSE [k EXCEPT !.stream = Append(k.stream, ErrorEvent(k.n)),
                   !.closed = TRUE, !.pc = "done"]

\* deductCredits returned
DeductReturned(k) ==
    IF k.endpoint = "json" THEN [k EXCEPT !.pc = "done", !.status = 200]
    ELSE IF k.endpoint = "seq" THEN SeqAfterResult(k)
    ELSE [k EXCEPT !.stream = Append(k.stream, CompleteEvent(k.n, k.successful)),
                   !.closed = TRUE, !.pc = "done"]

\* deductCredits called by a describe handler: findUnique and the guard
ReqDeductFind(r) ==
    /\ dr[r].pc = "deduct"
    /\ LET k == dr[r]
           user == users[k.user.id]
       IN dr' = [dr EXCEPT ![r] =
            IF InsufficientCredits(user, DeductAmount(k.endpoint, k.successful))
            THEN DeductThrew(k, "Insufficient credits")
            ELSE [k EXCEPT !.ded = user, !.pc = "deductTx"]]
    /\ UNCHANGED <<users, txs, images, ideogramKey>>
    /\ UNCHANGED avars

\* its $transaction commits
ReqDeductCommit(r) ==
    /\ dr[r].pc = "deductTx"
    /\ LET k == dr[r]
           u == k.user.id
           amount == DeductAmount(k.endpoint, k.successful)
       IN /\ users' = SetCredits(users, u, DeductData(k.ded, users[u].credits, amount))
          /\ txs' = Append(txs, DeductRow(u, amount, <<4, r>>))
          /\ dr' = [dr EXCEPT ![r] = DeductReturned(k)]
    /\ UNCHANGED <<images, ideogramKey>>
    /\ UNCHANGED avars

\* its $transaction rejects
ReqDeductAbort(r) ==
    /\ dr[r].pc = "deductTx"
    /\ dr' = [dr EXCEPT ![r] = DeductThrew(dr[r], "db")]
    /\ UNCHANGED <<users, txs, images, ideogramKey>>
    /\ UNCHANGED avars

(***************************************************************************)
(* lib/settings: getSetting.                                               *)
(***************************************************************************)
SettingKeys == {"IDEOGRAM_API_KEY"}
EnvNames == {"IDEOGRAM_API_KEY", "FALLBACK_KEY"}

Null == "<null>"           \* null
Unset == "<unset>"         \* process.env[name] of a variable that is not set
Omitted == "<omitted>"     \* the argument fallbackEnvKey left out

NoSetting == [value |-> Null, isActive |-> FALSE]
SettingRows == {NoSetting} \cup [value : {"", "db-value"}, isActive : BOOLEAN]
EnvValues == {Unset, "", "env-value", "fallback-value"}

\* JavaScript truthiness of a string, null or undefined
Truthy(v) == v \notin {"", Null, Unset}

\* findUnique without the isActive condition
FindSettingAnyState(rows, key) == rows[key]

\* prisma.settings.findUnique({ where: { key, isActive: true } })
FindSetting(rows, key) == IF rows[key].isActive THEN rows[key] ELSE NoSetting

\* process.env[name] || null
EnvOrNull(environment, name) ==
    IF Truthy(environment[name]) THEN environment[name] ELSE Null

\* what getSetting returns; both the try block and the catch block end in
\* the same two fallback statements
GetSettingResult(rows, environment, key, fallbackEnvKey, throws) ==
    IF ~throws /\ Truthy(FindSetting(rows, key).value)
    THEN FindSetting(rows, key).value
    ELSE IF Truthy(fallbackEnvKey) /\ fallbackEnvKey # Omitted
    THEN EnvOrNull(environment, fallbackEnvKey)
    ELSE EnvOrNull(environment, key)

IdleGet == [pc |-> "idle", key |-> "none", fallbackEnvKey |-> Omitted,
            threw |-> FALSE, result |-> Null]

\* one call of getSetting; `throws` says that the database lookup rejects
GetSetting(key, fallbackEnvKey, throws) ==
    /\ gs' = [pc |-> "done", key |-> key, fallbackEnvKey |-> fallbackEnvKey,
              threw |-> throws,
              result |-> GetSettingResult(settings, env, key, fallbackEnvKey, throws)]
    /\ UNCHANGED <<users, txs, payments, lc, pp, pt, ops, images, dr,
                   ideogramKey, role, pa, settings, env, cl>>

(***************************************************************************)
(* The bulk upload components: BulkImageUploadOptimized and                *)
(* BulkImageUploadWithProgress.  Both post the files to /api/describe/bulk *)
(* and read the response body chunk by chunk.                              *)
(***************************************************************************)
Components == {"optimized", "withProgress"}

NoResult == [index |-> -1, success |-> FALSE]
PendingFile == [status |-> "pending", result |-> NoResult]

\* the events the sequential endpoint writes for n files of which the
\* first m got a result: progress(0, n), then progress and result file by
\* file, then the terminal event
ServerStream(n, outcomes, ending) ==
    LET m == Len(outcomes)
    IN [y \in 1..(2 * m + 2) |->
          IF y = 1 THEN ProgressEvent(0, n)
          ELSE IF y = 2 * m + 2
          THEN (IF ending = "complete"
                THEN CompleteEvent(n, Cardinality({x \in 1..m : outcomes[x]}))
                ELSE ErrorEvent(n))
          ELSE IF y % 2 = 0 THEN ProgressEvent(y \div 2, n)
          ELSE ResultEvent([index |-> (y - 3) \div 2,
                            success |-> outcomes[(y - 1) \div 2]], n)]

\* the loop ends with complete after the last file or after a file that
\* was refused for lack of credits; an error event can follow any file
Outcomes(n) == UNION {[1..m -> BOOLEAN] : m \in 0..n}

Endings(n, outcomes) ==
    {"error"} \cup
    (IF Len(outcomes) = n \/ (Len(outcomes) > 0 /\ ~outcomes[Len(outcomes)])
     THEN {"complete"} ELSE {})

\* what fetch gives the component: a rejected promise, a response that is
\* not ok, or a response with an event stream as its body
Responses(n) ==
    {[kind |-> "rejected", stream |-> <<>>], [kind |-> "notOk", stream |-> <<>>]}
    \cup UNION {{[kind |-> "ok", stream |-> ServerStream(n, o, e)] :
                    e \in Endings(n, o)} : o \in Outcomes(n)}

\* encoder.encode(`data: ${JSON.stringify(update)}\n\n`): every event is
\* three pieces on the wire, the text of its data line cut in two at any
\* inner point, and the blank line after it
PiecesPerEvent == 3
WireLength(stream) == PiecesPerEvent * Len(stream)
EventAt(j) == (j - 1) \div PiecesPerEvent + 1
PieceAt(j) == (j - 1) % PiecesPerEvent

\* chunk.split('\n') of the pieces a..b: one line for every event with a
\* piece of its data line in the chunk
Lines(a, b) ==
    LET ks == {k \in EventAt(a)..EventAt(b) :
                  \E j \in a..b : EventAt(j) = k /\ PieceAt(j) < 2}
    IN [x \in 1..Cardinality(ks) |->
          LET k == CHOOSE k \in ks : Cardinality({q \in ks : q < k}) = x - 1
          IN [event |-> k,
              head |-> \E j \in a..b : EventAt(j) = k /\ PieceAt(j) = 0,
              tail |-> \E j \in a..b : EventAt(j) = k /\ PieceAt(j) = 1]]

NoEvent == Event("none", -1, 0, FALSE, 0)

\* parseSSEData, and the startsWith and JSON.parse of the other component:
\* a line without the head of the data line does not start with 'data: ',
\* a line without its tail is not JSON
ParseSSEData(stream, line) ==
    IF line.head /\ line.tail THEN stream[line.event] ELSE NoEvent

\* FileManager.updateFileStatus(index, status, result)
UpdateFileStatus(files, index, status, result) ==
    IF index >= 0 /\ index < Len(files)
    THEN [files EXCEPT ![index + 1] = [status |-> status, result |-> result]]
    ELSE files

\* case 'progress': every file below data.index becomes 'processing'; the
\* optimized component calls updateFileStatus without a result
MarkProcessing(component, files, index) ==
    IF component = "optimized"
    THEN [x \in 1..Len(files) |->
            IF index > 0 /\ x - 1 < index
            THEN [status |-> "processing", result |-> NoResult]
            ELSE files[x]]
    ELSE [x \in 1..Len(files) |->
            IF index > 0 /\ index <= Len(files) /\ x - 1 < index
            THEN [files[x] EXCEPT !.status = "processing"]
            ELSE files[x]]

\* setIsProcessing(false) on a terminal event: the optimized component has
\* it after handleProgressUpdate for 'complete' only, the other component
\* in case 'complete' and in case 'error'
StopsProcessing(component, e) ==
    e.type = "complete" \/ (component = "withProgress" /\ e.type = "error")

\* handleProgressUpdate, and the switch of the other component
HandleProgressUpdate(c, e) ==
    LET c1 == [c EXCEPT !.handled = Append(c.handled, e),
                        !.isProcessing = c.isProcessing /\ ~StopsProcessing(c.component, e)]
    IN IF e.type = "progress"
       THEN [c1 EXCEPT !.files = MarkProcessing(c.component, c.files, e.index)]
       ELSE IF e.type = "result"
       THEN [c1 EXCEPT !.results = c.results + 1,
                       !.files = UpdateFileStatus(c.files, e.index,
                                    IF e.success THEN "completed" ELSE "error",
                                    [index |-> e.index, success |-> e.success])]
       ELSE c1

\* for (const line of lines): the optimized component leaves the loop
\* over the lines of the chunk after a complete event
RECURSIVE HandleLines(_, _, _)
HandleLines(c, lines, x) ==
    IF x > Len(lines) THEN c
    ELSE LET data == ParseSSEData(c.response.stream, lines[x])
         IN IF data = NoEvent THEN HandleLines(c, lines, x + 1)
            ELSE IF c.component = "optimized" /\ data.type = "complete"
            THEN HandleProgressUpdate(c, data)
            ELSE HandleLines(HandleProgressUpdate(c, data), lines, x + 1)

IdleClient == [pc |-> "idle", component |-> "none", files |-> <<>>,
               response |-> [kind |-> "none", stream |-> <<>>],
               isProcessing |-> FALSE, pos |-> 0, handled |-> <<>>,
               results |-> 0]

\* processImages up to the await of fetch
ProcessImages ==
    /\ cl.pc = "idle"
    /\ Len(cl.files) > 0
    /\ cl' = [cl EXCEPT !.pc = "fetch", !.isProcessing = TRUE,
                        !.results = 0,
                        !.files = [x \in 1..Len(cl.files) |->
                                     IF cl.component = "withProgress"
                                     THEN [cl.files[x] EXCEPT !.status = "pending"]
                                     ELSE cl.files[x]]]
    /\ UNCHANGED bvars

\* fetch rejects, or the response is not ok: the catch block
FetchFails ==
    /\ cl.pc = "fetch"
    /\ cl.response.kind \in {"rejected", "notOk"}
    /\ cl' = [cl EXCEPT !.pc = "returned", !.isProcessing = FALSE]
    /\ UNCHANGED bvars

\* the response is ok: response.body.getReader()
FetchReturns ==
    /\ cl.pc = "fetch"
    /\ cl.response.kind = "ok"
    /\ cl' = [cl EXCEPT !.pc = "read"]
    /\ UNCHANGED bvars

\* reader.read() returns the next len pieces of the body as one chunk, and
\* the component handles the lines of the chunk
ReadChunk(len) ==
    /\ cl.pc = "read"
    /\ cl.pos + len <= WireLength(cl.response.stream)
    /\ cl' = [HandleLines(cl, Lines(cl.pos + 1, cl.pos + len), 1)
                 EXCEPT !.pos = cl.pos + len]
    /\ UNCHANGED bvars

\* reader.read() returns done: the while loop is left
ReadDone ==
    /\ cl.pc = "read"
    /\ cl.pos = WireLength(cl.response.stream)
    /\ cl' = [cl EXCEPT !.pc = "returned"]
    /\ UNCHANGED bvars

\* no component mounted
ClientAtRest == cl = IdleClient

\* no setting stored, no variable set, getSetting not called
SettingsAtRest ==
    /\ settings = [k \in SettingKeys |-> NoSetting]
    /\ env = [name \in EnvNames |-> Unset]
    /\ gs = IdleGet

Init ==
    /\ users = [u \in UserIds |-> NoUser]
    /\ txs = <<>>
    /\ payments = [p \in PayIds |-> NoPay]
    /\ lc = [c \in Calls |-> IdleCall]
    /\ pp = [c \in PayCalls |-> IdlePay]
    /\ pt = [c \in Patches |-> IdlePatch]
    /\ ops = 0
    /\ images = {}
    /\ dr = [r \in Reqs |-> IdleReq]
    /\ ideogramKey = TRUE
    /\ role = [u \in UserIds |-> "USER"]
    \* the process calls of this specification are an administrator's: they
    \* are followed from the admin check on (SpecAuth has the checks)
    /\ pa = [c \in PayCalls |-> PastAdminCheck]
    /\ SettingsAtRest
    /\ ClientAtRest

Amounts == {1, DefaultCredits, DefaultCredits + 1}
AddTypes == {"PURCHASE", "BONUS"}
PayActions == {"APPROVED", "REJECTED"}
PatchCredits == {Undefined, -1, 0, DefaultCredits}

Next ==
    \/ \E u \in UserIds : CreateUser(u)
    \/ \E c \in Calls, u \in UserIds, a \in Amounts :
          LedgerFind(c, "deduct", u, a, "IMAGE_DESCRIPTION")
    \/ \E c \in Calls, u \in UserIds, a \in Amounts, t \in AddTypes :
          LedgerFind(c, "add", u, a, t)
    \/ \E c \in Calls : LedgerCommit(c)
    \/ \E c \in Calls : LedgerAbort(c)
    \/ \E p \in PayIds, u \in UserIds : SubmitPayment(p, u, MinPayCredits)
    \/ \E c \in PayCalls, p \in PayIds, a \in PayActions : PayFind(c, p, a)
    \/ \E c \in PayCalls : PayCommit(c)
    \/ \E c \in PayCalls : PayAbort(c)
    \/ \E c \in Patches, u \in UserIds, n \in PatchCredits : PatchFind(c, u, n)
    \/ \E c \in Patches : PatchCreateTx(c)
    \/ \E c \in Patches : PatchUpdate(c)
    \/ \E c \in Patches : PatchUpdateFails(c)

Spec == Init /\ [][Next]_vars

(***************************************************************************)
(* The describe endpoints, called by a user whose balance an admin has set *)
(* to b: the state after CreateUser and a completed PATCH { credits: b }.  *)
(***************************************************************************)
InitDescribe ==
    /\ \E b \in 0..MaxBalance :
          /\ users = [u \in UserIds |->
                        IF u = DescribeUser THEN UserRow(u, b) ELSE NoUser]
          /\ txs = <<AdjustmentRow(DescribeUser, b,
                                   UserRow(DescribeUser, DefaultCredits), <<3, 1>>)>>
    /\ payments = [p \in PayIds |-> NoPay]
    /\ lc = [c \in Calls |-> IdleCall]
    /\ pp = [c \in PayCalls |-> IdlePay]
    /\ pt = [c \in Patches |-> IdlePatch]
    /\ ops = 0
    /\ images = {}
    /\ dr = [r \in Reqs |-> IdleReq]
    /\ ideogramKey \in BOOLEAN
    /\ role = [u \in UserIds |-> "USER"]
    /\ pa = [c \in PayCalls |-> IdleAuth]
    /\ SettingsAtRest
    /\ ClientAtRest

NextDescribe ==
    \/ \E r \in Reqs, e \in Endpoints, n \in 1..(MaxFiles - FilesSubmitted) :
          ReqStart(r, e, n, SessionOf(DescribeUser))
    \/ \E r \in Reqs, c \in Cases : JsonProcess(r, c[1], c[2], c[3])
    \/ \E r \in Reqs, c \in Cases : SeqCheck(r, c[1], c[2], c[3])
    \/ \E r \in Reqs : SeqComplete(r)
    \/ \E r \in Reqs : ConcStartBatch(r)
    \/ \E r \in Reqs, x \in 1..MaxFiles, c \in Cases :
          ConcSettle(r, x, c[1], c[2], c[3])
    \/ \E r \in Reqs : ConcEmit(r)
    \/ \E r \in Reqs : ReqDeductFind(r)
    \/ \E r \in Reqs : ReqDeductCommit(r)
    \/ \E r \in Reqs : ReqDeductAbort(r)

SpecDescribe == InitDescribe /\ [][NextDescribe]_vars

(***************************************************************************)
(* The process calls with their session and admin checks.  User 2 has      *)
(* signed up and submitted a payment request; user 1's row may have been   *)
(* removed while a token issued for it is still valid; any of the two may  *)
(* be an administrator.                                                    *)
(***************************************************************************)
Requester == 2

InitAuth ==
    /\ \E present \in BOOLEAN :
          users = [u \in UserIds |->
                     IF u = Requester \/ present THEN UserRow(u, DefaultCredits)
                     ELSE NoUser]
    /\ role \in [UserIds -> Roles]
    /\ txs = <<>>
    /\ payments = [p \in PayIds |->
                     [id |-> p, userId |-> Requester,
                      creditsRequested |-> MinPayCredits, status |-> "PENDING"]]
    /\ lc = [c \in Calls |-> IdleCall]
    /\ pp = [c \in PayCalls |-> IdlePay]
    /\ pt = [c \in Patches |-> IdlePatch]
    /\ ops = 0
    /\ images = {}
    /\ dr = [r \in Reqs |-> IdleReq]
    /\ ideogramKey = TRUE
    /\ pa = [c \in PayCalls |-> IdleAuth]
    /\ SettingsAtRest
    /\ ClientAtRest

NextAuth ==
    \/ \E c \in PayCalls, token \in Tokens : PaySession(c, token)
    \/ \E c \in PayCalls : PayRole(c)
    \/ \E c \in PayCalls, p \in PayIds, a \in PayActions : PayFind(c, p, a)
    \/ \E c \in PayCalls : PayCommit(c)
    \/ \E c \in PayCalls : PayAbort(c)

SpecAuth == InitAuth /\ [][NextAuth]_vars

(***************************************************************************)
(* The handlers that call getCurrentUser, each request for one file, made  *)
(* without a session, by user 1, or with a token of user 2, who has no row *)
(* (any more).                                                             *)
(***************************************************************************)
SessionTokens == {NoSession} \cup {SessionOf(u) : u \in UserIds}

NextSession ==
    \/ \E r \in Reqs, e \in Endpoints, token \in SessionTokens :
          ReqStart(r, e, 1, token)
    \/ \E r \in Reqs, e \in UserEndpoints, token \in SessionTokens :
          UserRequest(r, e, token)
    \/ \E r \in Reqs, c \in Cases : JsonProcess(r, c[1], c[2], c[3])
    \/ \E r \in Reqs, c \in Cases : SeqCheck(r, c[1], c[2], c[3])
    \/ \E r \in Reqs : SeqComplete(r)
    \/ \E r \in Reqs : ConcStartBatch(r)
    \/ \E r \in Reqs, x \in 1..MaxFiles, c \in Cases :
          ConcSettle(r, x, c[1], c[2], c[3])
    \/ \E r \in Reqs : ConcEmit(r)
    \/ \E r \in Reqs : ReqDeductFind(r)
    \/ \E r \in Reqs : ReqDeductCommit(r)
    \/ \E r \in Reqs : ReqDeductAbort(r)

SpecSession == InitDescribe /\ [][NextSession]_vars

(***************************************************************************)
(* A sequential stream (request 1) next to a JSON request (request 2) of   *)
(* the same user, each for up to MaxSeqFiles files: the other request can  *)
(* use up the balance before the stream is through.                        *)
(***************************************************************************)
SeqCases == {<<"image", "ok", TRUE>>, <<"image", "throws", TRUE>>}

NextSeq ==
    \/ \E r \in Reqs, n \in 1..MaxSeqFiles :
          ReqStart(r, IF r = 1 THEN "seq" ELSE "json", n, SessionOf(DescribeUser))
    \/ \E r \in Reqs, c \in SeqCases : JsonProcess(r, c[1], c[2], c[3])
    \/ \E r \in Reqs, c \in SeqCases : SeqCheck(r, c[1], c[2], c[3])
    \/ \E r \in Reqs : SeqComplete(r)
    \/ \E r \in Reqs : ReqDeductFind(r)
    \/ \E r \in Reqs : ReqDeductCommit(r)
    \/ \E r \in Reqs : ReqDeductAbort(r)

SpecSeq == InitDescribe /\ [][NextSeq]_vars

(***************************************************************************)
(* One request to the concurrent stream for up to MaxConcFiles files, by a *)
(* user who has just signed up.                                            *)
(***************************************************************************)
InitConc ==
    /\ users = [u \in UserIds |->
                  IF u = DescribeUser THEN UserRow(u, DefaultCredits) ELSE NoUser]
    /\ txs = <<>>
    /\ payments = [p \in PayIds |-> NoPay]
    /\ lc = [c \in Calls |-> IdleCall]
    /\ pp = [c \in PayCalls |-> IdlePay]
    /\ pt = [c \in Patches |-> IdlePatch]
    /\ ops = 0
    /\ images = {}
    /\ dr = [r \in Reqs |-> IdleReq]
    /\ ideogramKey = TRUE
    /\ role = [u \in UserIds |-> "USER"]
    /\ pa = [c \in PayCalls |-> IdleAuth]
    /\ SettingsAtRest
    /\ ClientAtRest

NextConc ==
    \/ \E n \in 1..MaxConcFiles : ReqStart(1, "conc", n, SessionOf(DescribeUser))
    \/ ConcStartBatch(1)
    \/ \E x \in 1..BatchSize, c \in SeqCases : ConcSettle(1, x, c[1], c[2], c[3])
    \/ ConcEmit(1)
    \/ ReqDeductFind(1)
    \/ ReqDeductCommit(1)
    \/ ReqDeductAbort(1)

SpecConc == InitConc /\ [][NextConc]_vars

(***************************************************************************)
(* The two streaming endpoints with every per-file outcome, where every    *)
(* awaited call of a started request returns: an external call or a        *)
(* database call that is pending is a step that stays enabled until taken. *)
(***************************************************************************)
StreamEndpoints == {"seq", "conc"}

\* one file for each outcome: success, validation failure, API error,
\* persistence error
StreamCases == {<<"image", "ok", TRUE>>, <<"notImage", "ok", TRUE>>,
                <<"image", "throws", TRUE>>, <<"image", "ok", FALSE>>}

\* the first request meets every outcome; the request competing with it
\* for the credits has one file, a success or a validation failure
CasesOf(r) == IF r = 1 THEN StreamCases
              ELSE {<<"image", "ok", TRUE>>, <<"notImage", "ok", TRUE>>}

\* the steps of request r after its start: each is the return of a call
\* the handler awaits, or the synchronous code up to the next await
StreamStep(r) ==
    \/ \E c \in CasesOf(r) : SeqCheck(r, c[1], c[2], c[3])
    \/ SeqComplete(r)
    \/ ConcStartBatch(r)
    \/ \E x \in 1..MaxSeqFiles, c \in CasesOf(r) :
          ConcSettle(r, x, c[1], c[2], c[3])
    \/ ConcEmit(r)
    \/ ReqDeductFind(r)
    \/ ReqDeductCommit(r)
    \/ ReqDeductAbort(r)

\* the user holds just the credits the largest request needs, so that two
\* requests compete for them
InitStream ==
    /\ users = [u \in UserIds |->
                  IF u = DescribeUser THEN UserRow(u, MaxSeqFiles) ELSE NoUser]
    /\ txs = <<AdjustmentRow(DescribeUser, MaxSeqFiles,
                             UserRow(DescribeUser, DefaultCredits), <<3, 1>>)>>
    /\ payments = [p \in PayIds |-> NoPay]
    /\ lc = [c \in Calls |-> IdleCall]
    /\ pp = [c \in PayCalls |-> IdlePay]
    /\ pt = [c \in Patches |-> IdlePatch]
    /\ ops = 0
    /\ images = {}
    /\ dr = [r \in Reqs |-> IdleReq]
    /\ ideogramKey = TRUE
    /\ role = [u \in UserIds |-> "USER"]
    /\ pa = [c \in PayCalls |-> IdleAuth]
    /\ SettingsAtRest
    /\ ClientAtRest

NextStream ==
    \/ \E r \in Reqs, e \in StreamEndpoints :
          \E n \in 1..(IF r = 1 THEN MaxSeqFiles ELSE 1) :
             ReqStart(r, e, n, SessionOf(DescribeUser))
    \/ \E r \in Reqs : StreamStep(r)

SpecStream ==
    /\ InitStream
    /\ [][NextStream]_vars
    /\ \A r \in Reqs : WF_vars(StreamStep(r))

(***************************************************************************)
(* A bulk upload component with 1..MaxClientFiles files selected, and any  *)
(* response the sequential endpoint can give for them, read in any chunks. *)
(***************************************************************************)
InitClient ==
    /\ users = [u \in UserIds |-> NoUser]
    /\ txs = <<>>
    /\ payments = [p \in PayIds |-> NoPay]
    /\ lc = [c \in Calls |-> IdleCall]
    /\ pp = [c \in PayCalls |-> IdlePay]
    /\ pt = [c \in Patches |-> IdlePatch]
    /\ ops = 0
    /\ images = {}
    /\ dr = [r \in Reqs |-> IdleReq]
    /\ ideogramKey = TRUE
    /\ role = [u \in UserIds |-> "USER"]
    /\ pa = [c \in PayCalls |-> IdleAuth]
    /\ SettingsAtRest
    /\ \E component \in Components, n \in 1..MaxClientFiles :
          \E response \in Responses(n) :
             cl = [IdleClient EXCEPT !.component = component,
                                     !.files = [x \in 1..n |-> PendingFile],
                                     !.response = response]

NextClient ==
    \/ ProcessImages
    \/ FetchFails
    \/ FetchReturns
    \/ \E len \in 1..(PiecesPerEvent * (2 * MaxClientFiles + 2)) : ReadChunk(len)
    \/ ReadDone

SpecClient == InitClient /\ [][NextClient]_vars

\* every awaited promise of processImages settles
SpecClientFair == SpecClient /\ WF_vars(NextClient)

(***************************************************************************)
(* getSetting called with any stored setting and any environment.          *)
(***************************************************************************)
InitSetting ==
    /\ users = [u \in UserIds |-> NoUser]
    /\ txs = <<>>
    /\ payments = [p \in PayIds |-> NoPay]
    /\ lc = [c \in Calls |-> IdleCall]
    /\ pp = [c \in PayCalls |-> IdlePay]
    /\ pt = [c \in Patches |-> IdlePatch]
    /\ ops = 0
    /\ images = {}
    /\ dr = [r \in Reqs |-> IdleReq]
    /\ ideogramKey = TRUE
    /\ role = [u \in UserIds |-> "USER"]
    /\ pa = [c \in PayCalls |-> IdleAuth]
    /\ settings \in [SettingKeys -> SettingRows]
    /\ env \in [EnvNames -> EnvValues]
    /\ gs = IdleGet
    /\ ClientAtRest

NextSetting ==
    \E key \in SettingKeys, fallbackEnvKey \in EnvNames \cup {Omitted},
       throws \in BOOLEAN :
        GetSetting(key, fallbackEnvKey, throws)

SpecSetting == InitSetting /\ [][NextSetting]_vars

(***************************************************************************)
(* Properties.                                                             *)
(***************************************************************************)
\* the rows a handler invocation inserted, and the credits it deducted
RowsBy(by) == SelectSeq(txs, LAMBDA row : row.by = by)

RECURSIVE SumRows(_)
SumRows(rows) == IF rows = <<>> THEN 0 ELSE Head(rows).amount + SumRows(Tail(rows))

Deducted(r) == 0 - SumRows(RowsBy(<<4, r>>))

ExtOkCount(r) ==
    Cardinality({x \in 1..Len(dr[r].results) : dr[r].results[x].extOk})

LastRow(rows) == rows[Len(rows)]

\* C1: every user's balance equals the sum of the amounts of that user's
\* credit_transactions rows, in every reachable state.
BalanceEqualsLedger ==
    \A u \in UserIds :
        users[u] # NoUser => users[u].credits = SumAmounts(txs, u)

\* C2: a process call changes a payment request (its status, and with an
\* approval its user's credits) only while the request is PENDING, and a
\* request that is APPROVED or REJECTED keeps its status: it is processed,
\* and granted, once.
PaymentProcessedOnce ==
    [][/\ \A p \in PayIds :
             (payments[p] # NoPay /\ payments[p].status # "PENDING")
             => payments'[p].status = payments[p].status
       /\ \A c \in PayCalls :
             (pp[c].pc = "tx" /\ pp'[c].pc = "done" /\ pp'[c].status = 200)
             => payments[pp[c].requestId].status = "PENDING"]_vars

\* C3: a finished describe request has deducted no credit for a file that
\* failed validation or whose external call failed: the credits it deducted
\* do not exceed the number of its files for which both succeeded.
NoCreditForFailedFile ==
    \A r \in Reqs : dr[r].pc = "done" => Deducted(r) <= ExtOkCount(r)

\* C4: a describe request for N files deducts at most N credits.
DeductAtMostN == \A r \in Reqs : Deducted(r) <= dr[r].n

DeductAtMostNWitness ==
    \E r \in Reqs : dr[r].pc = "done" /\ dr[r].n >= 2 /\ Deducted(r) = dr[r].n

\* C5: a request whose user had fewer credits than files at the credit
\* check is answered 402 and has called no API, created no row, deducted
\* no credit and opened no stream.
RejectedBeforeProcessing ==
    \A r \in Reqs :
        (dr[r].pc # "idle" /\ dr[r].user.credits < dr[r].n)
        => /\ dr[r].pc = "done" /\ dr[r].status = 402
           /\ dr[r].apiCalls = 0
           /\ \A row \in images : row.by # <<4, r>>
           /\ Deducted(r) = 0
           /\ dr[r].stream = <<>> /\ ~dr[r].closed

RejectedBeforeProcessingWitness ==
    \E r \in Reqs : /\ dr[r].pc = "done" /\ dr[r].status = 402
                    /\ dr[r].user.credits >= 1
                    /\ dr[r].user.credits < dr[r].n

\* C6: no user's balance is ever negative.
CreditsNeverNegative ==
    \A u \in UserIds : users[u] # NoUser => users[u].credits >= 0

\* C7: a deductCredits call for a missing user or for more than the balance
\* fails with 'Insufficient credits' and changes neither a balance nor the
\* transaction log.
DeductFailsUnchanged ==
    [][\A c \in Calls :
          (lc[c].pc = "idle" /\ lc'[c].pc # "idle" /\ lc'[c].op = "deduct"
           /\ (users[lc'[c].userId] = NoUser
               \/ users[lc'[c].userId].credits < lc'[c].amount))
          => /\ lc'[c].pc = "failed"
             /\ lc'[c].err = "Insufficient credits"
             /\ users' = users
             /\ txs' = txs]_vars

DeductFailsUnchangedWitness ==
    /\ \E c \in Calls : /\ lc[c].pc = "failed" /\ lc[c].op = "deduct"
                        /\ lc[c].err = "Insufficient credits"
                        /\ lc[c].user # NoUser
                        /\ lc[c].user.credits < lc[c].amount
    /\ \E c \in Calls : /\ lc[c].pc = "failed" /\ lc[c].op = "deduct"
                        /\ lc[c].err = "Insufficient credits"
                        /\ lc[c].user = NoUser

\* C8: the commit of a ledger call changes the user's balance by exactly
\* the signed amount, appends exactly one matching row and changes no other
\* user.
LedgerCallExact ==
    [][\A c \in Calls :
          (lc[c].pc = "tx" /\ lc'[c].pc = "done")
          => LET u == lc[c].userId
                 signed == IF lc[c].op = "deduct" THEN 0 - lc[c].amount
                           ELSE lc[c].amount
             IN /\ users'[u].credits = users[u].credits + signed
                /\ Len(txs') = Len(txs) + 1
                /\ SubSeq(txs', 1, Len(txs)) = txs
                /\ LastRow(txs').userId = u
                /\ LastRow(txs').amount = signed
                /\ LastRow(txs').type = (IF lc[c].op = "deduct"
                                         THEN "IMAGE_DESCRIPTION" ELSE lc[c].type)
                /\ \A v \in UserIds \ {u} : users'[v] = users[v]]_vars

\* C9: in every step an existing user's balance changes exactly when a
\* credit_transactions row of that user is inserted: neither write is ever
\* visible, or left behind, without the other.
BalanceAndRowTogether ==
    [][\A u \in UserIds :
          users[u] # NoUser
          => ((users'[u].credits # users[u].credits)
              <=> (Len(RowsOf(txs', u)) > Len(RowsOf(txs, u))))]_vars

\* C10: when a deductCredits call commits after another call for the same
\* user that read the same balance B has committed, the balance becomes
\* B minus its own amount, which is more than B minus both amounts, and
\* the rows of both calls are in the log.
LostUpdateOnSameRead ==
    [][\A c, d \in Calls :
          (/\ c # d
           /\ lc[c].pc = "tx" /\ lc'[c].pc = "done" /\ lc[c].op = "deduct"
           /\ lc[d].pc = "done" /\ lc[d].op = "deduct"
           /\ lc[d].userId = lc[c].userId
           /\ lc[d].user = lc[c].user)
          => LET u == lc[c].userId
                 B == lc[c].user.credits
             IN /\ users'[u].credits = B - lc[c].amount
                /\ users'[u].credits > B - (lc[c].amount + lc[d].amount)
                /\ Len(SelectSeq(txs', LAMBDA row : row.by = <<1, c>>)) = 1
                /\ Len(SelectSeq(txs', LAMBDA row : row.by = <<1, d>>)) = 1]_vars

LostUpdateOnSameReadWitness ==
    \E c, d \in Calls :
        /\ c # d
        /\ lc[c].pc = "done" /\ lc[c].op = "deduct"
        /\ lc[d].pc = "done" /\ lc[d].op = "deduct"
        /\ lc[c].userId = lc[d].userId
        /\ lc[c].user = lc[d].user
        /\ users[lc[c].userId].credits
             > lc[c].user.credits - (lc[c].amount + lc[d].amount)
        /\ SumRows(RowsBy(<<1, c>>)) + SumRows(RowsBy(<<1, d>>))
             = 0 - (lc[c].amount + lc[d].amount)

\* C11: the commit of a process call sets the status to the action and, if
\* the action is APPROVED, in the same step raises the requesting user's
\* balance by exactly creditsRequested and appends exactly one PURCHASE row
\* of that amount; with REJECTED it changes no balance and appends no row;
\* a call whose transaction rejects changes nothing at all.
PaymentGrantExact ==
    [][\A c \in PayCalls :
          (pp[c].pc = "tx" /\ pp'[c].pc = "done")
          => LET p == pp[c].requestId
                 pr == payments[p]
                 u == pr.userId
             IN IF pp'[c].status # 200
                THEN users' = users /\ txs' = txs /\ payments' = payments
                ELSE /\ payments'[p].status = pp[c].action
                     /\ IF pp[c].action = "APPROVED"
                        THEN /\ users'[u].credits
                                  = users[u].credits + pr.creditsRequested
                             /\ \A v \in UserIds \ {u} : users'[v] = users[v]
                             /\ Len(txs') = Len(txs) + 1
                             /\ SubSeq(txs', 1, Len(txs)) = txs
                             /\ LastRow(txs').userId = u
                             /\ LastRow(txs').amount = pr.creditsRequested
                             /\ LastRow(txs').type = "PURCHASE"
                        ELSE users' = users /\ txs' = txs]_vars

PaymentGrantExactWitness ==
    \E c, d \in PayCalls :
        /\ pp[c].pc = "done" /\ pp[c].status = 200 /\ pp[c].action = "APPROVED"
        /\ pp[d].pc = "done" /\ pp[d].status = 200 /\ pp[d].action = "REJECTED"
        /\ Len(SelectSeq(txs, LAMBDA row : row.type = "PURCHASE")) = 1

\* C12: a payment request's status, a balance and the transaction log
\* change only in the commit of a process call whose session names a user
\* that has role ADMIN in the database; a call without a session ends with
\* 401, a call of a user who is no administrator (or has no row) ends with
\* 403, and neither ever reads or writes a payment request.
OnlyAdminProcesses ==
    [][/\ (payments' # payments \/ users' # users \/ txs' # txs)
          => \E c \in PayCalls :
                /\ pp[c].pc = "tx" /\ pp'[c].pc = "done"
                /\ pa[c].session # NoSession
                /\ FindRole(pa[c].session.sub) = "ADMIN"
       /\ \A c \in PayCalls :
             /\ (pa[c].pc = "idle" /\ pa'[c].pc # "idle"
                 /\ pa'[c].session = NoSession)
                => (pa'[c].pc = "done" /\ pa'[c].status = 401)
             /\ (pa[c].pc = "role" /\ pa'[c].pc # "role"
                 /\ FindRole(pa[c].session.sub) # "ADMIN")
                => (pa'[c].pc = "done" /\ pa'[c].status = 403)
             /\ pa[c].status \in {401, 403}
                => (pp[c] = IdlePay /\ pp'[c] = IdlePay)]_vars

OnlyAdminProcessesWitness ==
    \E c, d \in PayCalls :
        /\ pa[c].pc = "done" /\ pa[c].status = 403
        /\ pa[c].session.role = "ADMIN"
        /\ pp[d].pc = "done" /\ pp[d].status = 200

\* the result events of a stream, in the order they were sent
ResultEvents(stream) == SelectSeq(stream, LAMBDA e : e.type = "result")

SuccessEvents(stream) ==
    SelectSeq(stream, LAMBDA e : e.type = "result" /\ e.success)

\* the image_descriptions rows a describe request inserted
ImagesBy(r) == Cardinality({row \in images : row.by = <<4, r>>})

\* the files of a sequential request being worked on: processed, its
\* result not yet sent
InProcessing(r) == IF dr[r].pc \in {"deduct", "deductTx"} THEN 1 ELSE 0

\* C13: in the sequential stream the files are processed one at a time in
\* index order: the results and the result events carry the indexes 0, 1,
\* 2, ...; at most one file is processed and not yet reported, so no file
\* is begun before the result event of the one before it; and the one
\* credit of every success is deducted by the time its result event is
\* sent: the request has inserted exactly one row of -1 per result event
\* with success true.
SequentialOrder ==
    \A r \in Reqs :
        (dr[r].endpoint = "seq" /\ dr[r].status = 200)
        => LET k == dr[r]
               sent == ResultEvents(k.stream)
           IN /\ \A x \in 1..Len(k.results) : k.results[x].index = x - 1
              /\ \A y \in 1..Len(sent) : sent[y].index = y - 1
              /\ Len(k.results) = Len(sent) + InProcessing(r)
              /\ k.apiCalls <= Len(k.results)
              /\ Len(RowsBy(<<4, r>>)) = Len(SuccessEvents(k.stream))
              /\ Deducted(r) = Len(SuccessEvents(k.stream))

SequentialOrderWitness ==
    \E r \in Reqs :
        /\ dr[r].endpoint = "seq" /\ dr[r].pc = "done"
        /\ Len(SuccessEvents(dr[r].stream)) >= 2
        /\ \E x \in 1..Len(dr[r].results) : ~dr[r].results[x].success

InFlight(r) ==
    Cardinality({x \in DOMAIN dr[r].batch : dr[r].batch[x] = Pending})

\* C15: a concurrent request never has more than MAX_CONCURRENT_REQUESTS
\* processImage calls in flight.
AtMostFiveInFlight ==
    \A r \in Reqs : InFlight(r) <= MaxConcurrentRequests

\* C16: the concurrent stream turns to deductCredits only once, when every
\* file of every batch has settled and at least one succeeded, and passes
\* the number of successful results; it has inserted no row before that,
\* inserts at most one row, of minus that number, and none when no file
\* succeeded.
DeductOnceAtEnd ==
    [][\A r \in Reqs :
          dr[r].endpoint = "conc"
          => LET k == dr[r]
                 rows == RowsBy(<<4, r>>)
             IN /\ k.pc \in {"batch", "settle", "deduct"} => rows = <<>>
                /\ Len(rows') <= 1
                /\ rows' # <<>>
                   => /\ Len(dr'[r].results) = k.n
                      /\ SuccessCount(dr'[r].results) > 0
                      /\ rows'[1].amount = 0 - SuccessCount(dr'[r].results)
                /\ (dr'[r].pc = "done" /\ SuccessCount(dr'[r].results) = 0)
                   => rows' = <<>>
                /\ (dr'[r].pc = "deduct" /\ k.pc # "deduct")
                   => /\ Len(dr'[r].results) = k.n
                      /\ InFlight(r) = 0
                      /\ dr'[r].successful = SuccessCount(dr'[r].results)
                      /\ dr'[r].successful > 0
                /\ k.pc \in {"deduct", "deductTx", "done"}
                   => dr'[r].pc \in {"deduct", "deductTx", "done"}
                /\ k.pc = "deductTx" => dr'[r].pc \in {"deductTx", "done"}
                /\ k.pc = "done" => dr'[r] = k]_vars

DeductOnceAtEndWitness ==
    \E r \in Reqs :
        /\ dr[r].endpoint = "conc" /\ dr[r].pc = "done"
        /\ dr[r].n > BatchSize
        /\ SuccessCount(dr[r].results) > 1
        /\ SuccessCount(dr[r].results) < dr[r].n
        /\ Deducted(r) = SuccessCount(dr[r].results)

Terminal(e) == e.type \in {"complete", "error"}

\* C17: a stream of a streaming endpoint holds only progress, result,
\* complete and error events; its first event is progress(0, N); its result
\* events carry the indexes 0, 1, 2, ... of the files, each once; a complete
\* or error event is its last event, and the stream is closed exactly when
\* it has one.
StreamProtocol ==
    \A r \in Reqs :
        (dr[r].endpoint \in {"seq", "conc"} /\ dr[r].status = 200)
        => LET st == dr[r].stream
               sent == ResultEvents(st)
           IN /\ Len(st) >= 1 /\ st[1] = ProgressEvent(0, dr[r].n)
              /\ \A x \in 1..Len(st) :
                    /\ st[x].type \in {"progress", "result", "complete", "error"}
                    /\ Terminal(st[x]) => x = Len(st)
              /\ Len(sent) <= dr[r].n
              /\ \A y \in 1..Len(sent) : sent[y].index = y - 1
              /\ dr[r].closed <=> Terminal(st[Len(st)])
              /\ dr[r].closed <=> dr[r].pc = "done"

StreamProtocolWitness ==
    \E r, q \in Reqs :
        /\ dr[r].closed /\ dr[r].stream[Len(dr[r].stream)].type = "error"
        /\ dr[q].closed /\ dr[q].stream[Len(dr[q].stream)].type = "complete"
        /\ Len(ResultEvents(dr[q].stream)) >= 2

\* C18: a request to a handler that calls getCurrentUser, made without a
\* valid session or for a user that has no row, is answered 401 and has
\* called no API, inserted or deleted no row and deducted no credit.
UnauthenticatedGets401 ==
    \A r \in Reqs :
        dr[r].auth # "none"
        => /\ dr[r].pc = "done" /\ dr[r].status = 401
           /\ dr[r].apiCalls = 0
           /\ ImagesBy(r) = 0
           /\ Deducted(r) = 0
           /\ dr[r].stream = <<>>

\* C19: a describe request that ran with no other request of the user has
\* at its end inserted as many image_descriptions rows as it deducted
\* credits, and as many as it has results with success true.
RowsEqualCreditsEqualSuccesses ==
    \A r \in Reqs :
        (dr[r].pc = "done" /\ \A q \in Reqs \ {r} : dr[q].pc = "idle")
        => /\ ImagesBy(r) = Deducted(r)
           /\ Deducted(r) = SuccessCount(dr[r].results)

\* C20: every step that changes the balance of an existing user is the
\* commit of a deductCredits or addCredits call for that user.
CreditsOnlyViaLedger ==
    [][\A u \in UserIds :
          (users[u] # NoUser /\ users'[u].credits # users[u].credits)
          => \E c \in Calls :
                lc[c].pc = "tx" /\ lc'[c].pc = "done" /\ lc[c].userId = u]_vars

\* the PURCHASE rows written for payment request p
GrantsOf(p) == SelectSeq(txs, LAMBDA row : row.type = "PURCHASE" /\ row.ref = p)

\* C21: the step that creates a payment request creates it PENDING and
\* changes no balance and no transaction row; a PENDING request changes,
\* and a PURCHASE row for a request is written, only in the commit of a
\* process call for that request; while a request is PENDING no PURCHASE
\* row for it exists.
SubmitGrantsNothing ==
    [][\A p \in PayIds :
          /\ (payments[p] = NoPay /\ payments'[p] # NoPay)
             => /\ payments'[p].status = "PENDING"
                /\ users' = users /\ txs' = txs
          /\ ((payments[p] # NoPay /\ payments'[p] # payments[p])
              \/ GrantsOf(p)' # GrantsOf(p))
             => \E c \in PayCalls :
                   /\ pp[c].pc = "tx" /\ pp'[c].pc = "done"
                   /\ pp[c].requestId = p
          /\ payments'[p].status = "PENDING" => GrantsOf(p)' = <<>>]_vars

SubmitGrantsNothingWitness ==
    \E p \in PayIds, c \in PayCalls :
        /\ payments[p].status = "PENDING"
        /\ pp[c].pc = "done" /\ pp[c].status = 500 /\ pp[c].requestId = p
        /\ users[payments[p].userId].credits = DefaultCredits

\* the environment variable a getSetting call falls back to
FallbackName(call) ==
    IF call.fallbackEnvKey = Omitted THEN call.key ELSE call.fallbackEnvKey

\* an active setting with a non-empty value exists and the lookup returned
StoredValueRead(call) ==
    /\ ~call.threw
    /\ settings[call.key] # NoSetting
    /\ settings[call.key].isActive
    /\ settings[call.key].value # ""

\* C22 as stated: getSetting returns the stored value when an active
\* setting with a non-empty value exists and the lookup does not throw; in
\* every other case it returns the environment variable, and null only
\* when that variable is unset.
GetSettingAsStated ==
    gs.pc = "done"
    => gs.result = IF StoredValueRead(gs) THEN settings[gs.key].value
                   ELSE IF env[FallbackName(gs)] = Unset THEN Null
                   ELSE env[FallbackName(gs)]

\* C22, amended: as stated, but the result is null also when the
\* environment variable is set to the empty string.
GetSettingFallsBack ==
    gs.pc = "done"
    => gs.result = IF StoredValueRead(gs) THEN settings[gs.key].value
                   ELSE IF env[FallbackName(gs)] \in {Unset, ""} THEN Null
                   ELSE env[FallbackName(gs)]

GetSettingFallsBackWitness ==
    /\ gs.pc = "done" /\ gs.threw
    /\ settings[gs.key].isActive /\ settings[gs.key].value = "db-value"
    /\ gs.fallbackEnvKey = "FALLBACK_KEY"
    /\ env["IDEOGRAM_API_KEY"] = "env-value"
    /\ gs.result = "fallback-value"

\* the rows a PATCH call inserted
PatchRows(c) == SelectSeq(txs, LAMBDA row : row.by = <<3, c>>)

\* C23: when a PATCH that carries credits = c answers 200, the balance is c
\* and the call has appended exactly one ADMIN_ADJUSTMENT row whose amount
\* is the change its write made to the balance (no row when c equals the
\* balance the write found), whatever ran between its read and its write.
AdminPatchExact ==
    [][\A c \in Patches :
          (/\ pt[c].pc = "update" /\ pt'[c].pc = "done"
           /\ pt'[c].status = 200 /\ pt[c].credits # Undefined)
          => LET u == pt[c].userId
             IN /\ users'[u].credits = pt[c].credits
                /\ IF users[u].credits = pt[c].credits
                   THEN PatchRows(c)' = <<>>
                   ELSE /\ Len(PatchRows(c)') = 1
                        /\ PatchRows(c)'[1].type = "ADMIN_ADJUSTMENT"
                        /\ PatchRows(c)'[1].amount
                              = users'[u].credits - users[u].credits]_vars

\* the files of a request that did not end as a success: results with
\* success false, and files the loop never reached
NotSucceeded(r) ==
    Cardinality({x \in 1..Len(dr[r].results) : ~dr[r].results[x].success})
    + (dr[r].n - Len(dr[r].results))

\* what C24 says of a summary e of request r
SummaryExact(e, r) ==
    /\ e.total = dr[r].n
    /\ e.successful + e.failed = e.total
    /\ e.creditsUsed = e.successful
    /\ e.creditsUsed = Deducted(r)
    /\ e.failed = NotSucceeded(r)
    /\ (\A q \in Reqs \ {r} : dr[q].pc = "idle")
       => users[dr[r].user.id].credits = dr[r].user.credits - e.creditsUsed

\* C24: in every complete event and every bulk JSON summary of a request
\* for N files, successful + failed = total = N, creditsUsed = successful,
\* creditsUsed is the sum of the ledger rows the request's deductCredits
\* calls wrote (and, for a request that ran alone, the fall of the balance),
\* and failed counts the files with a failed deduction and the files
\* skipped after an early stop.
SummaryAddsUp ==
    \A r \in Reqs :
        /\ \A x \in DOMAIN dr[r].stream :
              dr[r].stream[x].type = "complete"
              => SummaryExact(dr[r].stream[x], r)
        /\ BulkAnswered(dr[r]) => SummaryExact(BulkSummary(dr[r]), r)

SummaryAddsUpWitness ==
    \E r \in Reqs :
        /\ dr[r].endpoint = "seq" /\ dr[r].closed
        /\ dr[r].stream[Len(dr[r].stream)].type = "complete"
        /\ dr[r].stream[Len(dr[r].stream)].successful = 1
        /\ dr[r].stream[Len(dr[r].stream)].failed = 2
        /\ \E x \in 1..Len(dr[r].results) :
              dr[r].results[x].error
                 = "Processing successful but credit deduction failed"

\* the image_descriptions rows of user u, and the credits the describe
\* requests deducted from u
ImagesOf(u) == Cardinality({row \in images : row.userId = u})

DeductedFrom(u) ==
    0 - SumRows(SelectSeq(txs, LAMBDA row :
                    row.userId = u /\ row.type = "IMAGE_DESCRIPTION"))

\* C25: when the describe requests of a user have ended, however they were
\* interleaved, the user has at most as many image_descriptions rows as
\* credits were deducted from the user.
DescriptionsPaidFor ==
    (\A r \in Reqs : dr[r].pc \in {"idle", "done"})
    => ImagesOf(DescribeUser) <= DeductedFrom(DescribeUser)

ProgressEvents(stream) == SelectSeq(stream, LAMBDA e : e.type = "progress")

\* C27: a batch holds at most ten files; when a batch begins, every file
\* before it has settled and has its result recorded, and the stream holds
\* the progress and the result event of each of them; the result events
\* stand in the stream in file-index order.
BatchesInTurn ==
    [][\A r \in Reqs :
          /\ (dr[r].pc = "batch" /\ dr'[r].pc = "settle")
             => /\ Len(dr'[r].batch) \in 1..BatchSize
                /\ \A x \in DOMAIN dr'[r].batch : dr'[r].batch[x] = Pending
                /\ dr'[r].lo % BatchSize = 0
                /\ Len(dr[r].results) = dr'[r].lo
                /\ Len(ResultEvents(dr[r].stream)) = dr'[r].lo
                /\ Len(ProgressEvents(dr[r].stream)) = dr'[r].lo + 1
          /\ dr'[r].endpoint = "conc"
             => \A x \in DOMAIN ResultEvents(dr'[r].stream) :
                   ResultEvents(dr'[r].stream)[x].index = x - 1]_vars

BatchesInTurnWitness ==
    \E r \in Reqs :
        /\ dr[r].endpoint = "conc" /\ dr[r].pc = "settle"
        /\ dr[r].lo = BatchSize
        /\ InFlight(r) = 1
        /\ Len(ResultEvents(dr[r].stream)) = BatchSize
        /\ \E x \in 1..BatchSize : ~dr[r].results[x].success

\* request r passed the initial credit check of a streaming endpoint
StreamOpened(r) == dr[r].endpoint \in StreamEndpoints /\ dr[r].status = 200

\* the stream of request r is closed, a terminal event its last event
StreamEnded(r) ==
    /\ dr[r].closed
    /\ dr[r].stream # <<>>
    /\ Terminal(dr[r].stream[Len(dr[r].stream)])

\* C26: every streaming request that passed the initial credit check
\* eventually has a complete or error event as the last event of its
\* stream and the stream closed, whatever the outcomes of its files and of
\* its deductions, when every awaited call returns.
StreamEventuallyEnds ==
    \A r \in Reqs : StreamOpened(r) ~> StreamEnded(r)

StreamEventuallyEndsWitness ==
    \E r \in Reqs :
        /\ StreamOpened(r) /\ StreamEnded(r)
        /\ dr[r].n = MaxSeqFiles
        /\ \E x \in 1..Len(dr[r].results) : dr[r].results[x].error = "failed"
        /\ \E x \in 1..Len(dr[r].results) :
              dr[r].results[x].error
                 = "Processing successful but credit deduction failed"

\* the files of which the component has handled a result event
GotResult ==
    {cl.handled[y].index + 1 :
        y \in {y \in DOMAIN cl.handled : cl.handled[y].type = "result"}}

Settled(file) == file.status \in {"completed", "error"}

\* C28: while the component reads the response, a file shown as completed
\* or error keeps that status and its stored result; and when the complete
\* event has been handled, every file whose result event was handled is
\* shown as completed or error.
SettledStatusKept ==
    [][/\ cl.pc = "read"
          => \A x \in DOMAIN cl.files :
                Settled(cl.files[x]) => cl'.files[x] = cl.files[x]
       /\ (cl'.handled # <<>> /\ cl'.handled[Len(cl'.handled)].type = "complete")
          => \A x \in GotResult' : Settled(cl'.files[x])]_vars

\* C29: after processImages has started, isProcessing is false again at
\* some later time, however the response ends.
ProcessingEventuallyOver ==
    (cl.pc = "fetch") ~> (~cl.isProcessing)

\* C30: when the component has read the whole body, it has handled the
\* events the server wrote, each once and in the order written, however
\* the body was cut into chunks.
HandledAsEmitted ==
    (cl.pc = "returned" /\ cl.response.kind = "ok")
    => cl.handled = cl.response.stream

====
